---- MODULE Spec2Model ----
(***************************************************************************)
(* Score Viewer (simple-viewer-rust): the ingestion pipeline of            *)
(* src/src/data_handler.rs and the ScoreViewer shell of src/src/main.rs.   *)
(*                                                                         *)
(* Text is modelled as a sequence of one-character strings, so that        *)
(* lowercasing, substring search and splitting are computed character by   *)
(* character as the Rust standard library computes them.                   *)
(***************************************************************************)
EXTENDS Integers, Sequences, FiniteSets, TLC

VARIABLES
    app,        \* the ScoreViewer struct
    fs,         \* the file system: for each path, None or Some(text)
    net,        \* how the spreadsheet service answers a request now
    event,      \* history: what the last frame did
    data_from,  \* history: the data source app.data was loaded from
    call        \* the pipeline function applied last: name, input, output

vars == <<app, fs, net, event, data_from, call>>

\* Option::None, and the absence of a value in general.
None == [tag |-> "None"]

Some(v) == [tag |-> "Some", v |-> v]

Ok(v) == [tag |-> "Ok", v |-> v]

Err(e) == [tag |-> "Err", e |-> e]

(***************************************************************************)
(* Text helpers (Rust str methods)                                         *)
(***************************************************************************)
UpperChars == <<"A","B","C","D","E","F","G","H","I","J","K","L","M",
                "N","O","P","Q","R","S","T","U","V","W","X","Y","Z">>

LowerChars == <<"a","b","c","d","e","f","g","h","i","j","k","l","m",
                "n","o","p","q","r","s","t","u","v","w","x","y","z">>

\* char::to_lowercase on the ASCII range
lower_char(c) ==
    IF \E i \in 1..26 : UpperChars[i] = c
    THEN LowerChars[CHOOSE i \in 1..26 : UpperChars[i] = c]
    ELSE c

\* str::to_lowercase
to_lowercase(s) == [i \in 1..Len(s) |-> lower_char(s[i])]

\* str::contains(&str)
contains(s, pat) ==
    \E i \in 0..(Len(s) - Len(pat)) : SubSeq(s, i + 1, i + Len(pat)) = pat

\* str::contains(char)
contains_char(s, c) == \E i \in 1..Len(s) : s[i] = c

WhiteChars == {" ", "\t", "\r", "\n"}

\* str::trim().is_empty(): nothing but whitespace
trim_is_empty(s) == \A i \in 1..Len(s) : s[i] \in WhiteChars

\* str::split(char): the fields between the separators, at least one field
RECURSIVE split(_, _)
split(s, sep) ==
    IF ~ contains_char(s, sep)
    THEN <<s>>
    ELSE LET k == CHOOSE i \in 1..Len(s) :
                      s[i] = sep /\ \A j \in 1..(i - 1) : s[j] # sep
         IN  <<SubSeq(s, 1, k - 1)>> \o split(SubSeq(s, k + 1, Len(s)), sep)

\* Iterator::nth(n) (0-based)
nth(seq, n) == IF n + 1 <= Len(seq) THEN Some(seq[n + 1]) ELSE None

(***************************************************************************)
(* HeaderClassifier: process_headers and replace_header                    *)
(***************************************************************************)
columns_to_hide ==
    << <<"s","p","o","r","t","_","i","d">>,
       <<"t","e","a","m","_","m","e","m","b","e","r","s">>,
       <<"t","e","a","m","_","n","a","m","e">>,
       <<"i","n","f","o">>,
       <<"r","e","s","u","l","t","_","c","o","d","e">>,
       <<"p","o","s","i","t","i","o","n","_","p","r","e">> >>

replacements ==
    << << <<"c","a","t","e","g","o","r","y">>, <<"S","e","r","i","e","s">> >>,
       << <<"f","i","r","s","t","_","n","a","m","e">>, <<"N","a","m","e">> >>,
       << <<"l","a","s","t","_","n","a","m","e">>, <<"S","u","r","n","a","m","e">> >>,
       << <<"o","r","g","a","n","i","z","a","t","i","o","n">>, <<"C","l","u","b">> >>,
       << <<"n","a","p","a","t">>, <<"X">> >>,
       << <<"r","e","s","u","l","t">>, <<"R","e","s","u","l","t">> >>,
       << <<"p","o","s","i","t",".">>, <<"R","a","n","k">> >> >>

\* the loop over replacements: the first needle found, else the header itself
table_replacement(header) ==
    LET header_lower == to_lowercase(header)
        hits == {i \in 1..Len(replacements) :
                     contains(header_lower, replacements[i][1])}
    IN  IF hits = {}
        THEN header
        ELSE replacements[CHOOSE i \in hits : \A j \in hits : i <= j][2]

\* a variant that consults the rename table before the part-/psum- rules
replace_header_table_first(header) ==
    LET header_lower == to_lowercase(header)
        part_num == nth(split(header, "-"), 1)
    IN  IF table_replacement(header) # header
        THEN table_replacement(header)
        ELSE IF contains(header_lower, <<"p","a","r","t","-">>)
        THEN IF part_num.tag = "Some"
             THEN <<"S">> \o part_num.v
             ELSE header
        ELSE IF contains(header_lower, <<"p","s","u","m","-">>) /\ part_num.tag = "Some"
        THEN <<"P">> \o part_num.v
        ELSE header

replace_header(header) ==
    LET header_lower == to_lowercase(header)
        part_num == nth(split(header, "-"), 1)
    IN  IF contains(header_lower, <<"p","a","r","t","-">>)
        THEN IF part_num.tag = "Some"
             THEN <<"S">> \o part_num.v
             ELSE table_replacement(header)
        ELSE IF contains(header_lower, <<"p","s","u","m","-">>) /\ part_num.tag = "Some"
        THEN <<"P">> \o part_num.v
        ELSE table_replacement(header)

\* a variant that searches the header as written, without lowercasing it
should_hide_case_sensitive(header) ==
    \E k \in 1..Len(columns_to_hide) : contains(header, columns_to_hide[k])

\* the closure of process_headers' any(): does the header name a hidden column
should_hide(header) ==
    \E k \in 1..Len(columns_to_hide) :
        contains(to_lowercase(header), columns_to_hide[k])

RECURSIVE process_headers(_)
process_headers(headers) ==
    IF headers = <<>>
    THEN [processed_headers |-> <<>>, visible_columns |-> <<>>]
    ELSE LET n    == Len(headers)
             init == process_headers(SubSeq(headers, 1, n - 1))
             hide == should_hide(headers[n])
         IN  [processed_headers |->
                  IF hide THEN init.processed_headers
                  ELSE Append(init.processed_headers, replace_header(headers[n])),
              visible_columns |-> Append(init.visible_columns, ~ hide)]

(***************************************************************************)
(* TableData                                                               *)
(***************************************************************************)
\* TableData::empty()
TableData_empty == [headers |-> <<>>, rows |-> <<>>]

\* a variant that keeps the fields beyond the mask
RECURSIVE filter_visible_unguarded(_, _)
filter_visible_unguarded(record, visible_columns) ==
    IF record = <<>>
    THEN <<>>
    ELSE LET n    == Len(record)
             init == filter_visible_unguarded(SubSeq(record, 1, n - 1),
                                              visible_columns)
         IN  IF n > Len(visible_columns) \/ visible_columns[n]
             THEN Append(init, record[n])
             ELSE init

\* the column filter of both sources:
\* filter(|(i, _)| i < visible_columns.len() && visible_columns[i])
RECURSIVE filter_visible(_, _)
filter_visible(record, visible_columns) ==
    IF record = <<>>
    THEN <<>>
    ELSE LET n    == Len(record)
             init == filter_visible(SubSeq(record, 1, n - 1), visible_columns)
         IN  IF n <= Len(visible_columns) /\ visible_columns[n]
             THEN Append(init, record[n])
             ELSE init

\* a variant that looks at the first field alone
csv_row_is_empty_first_field(record) ==
    record = <<>> \/ trim_is_empty(record[1])

\* the row filter of load_csv_file: record.iter().all(|f| f.trim().is_empty())
csv_row_is_empty(record) ==
    \A i \in 1..Len(record) : trim_is_empty(record[i])

(***************************************************************************)
(* CsvSource: detect_delimiter and load_csv_file.  A file is None when it  *)
(* cannot be opened and Some(text) otherwise.                              *)
(***************************************************************************)
\* read_to_string reads the file to its end, and the whole text is searched
detect_delimiter(file) ==
    IF file.tag = "None"
    THEN Err("Io")
    ELSE LET first_line == file.v
         IN  IF contains_char(first_line, ";") THEN Ok(";") ELSE Ok(",")

\* drop the empty elements of a sequence of texts
RECURSIVE non_empty_lines(_)
non_empty_lines(ls) ==
    IF ls = <<>>
    THEN <<>>
    ELSE IF Head(ls) = <<>>
         THEN non_empty_lines(Tail(ls))
         ELSE <<Head(ls)>> \o non_empty_lines(Tail(ls))

\* The csv reader configured by ReaderBuilder (delimiter, flexible): one
\* record per non-empty line, one field per delimiter-separated piece, any
\* number of fields per record.  Texts without quote characters and
\* carriage returns are modelled.
csv_records(text, delimiter) ==
    LET ls == non_empty_lines(split(text, "\n"))
    IN  [i \in 1..Len(ls) |-> split(ls[i], delimiter)]

\* the loop over reader.records()
RECURSIVE csv_rows(_, _)
csv_rows(records, visible_columns) ==
    IF records = <<>>
    THEN <<>>
    ELSE LET n    == Len(records)
             init == csv_rows(SubSeq(records, 1, n - 1), visible_columns)
         IN  IF csv_row_is_empty(records[n])
             THEN init
             ELSE Append(init, filter_visible(records[n], visible_columns))

load_csv_file(file) ==
    LET delimiter == detect_delimiter(file)
    IN  IF delimiter.tag = "Err"
        THEN delimiter
        ELSE LET records == csv_records(file.v, delimiter.v)
                 headers == IF records = <<>> THEN <<>> ELSE Head(records)
                 ph      == process_headers(headers)
                 body    == IF records = <<>> THEN <<>> ELSE Tail(records)
             IN  Ok([headers |-> ph.processed_headers,
                     rows    |-> csv_rows(body, ph.visible_columns)])

(***************************************************************************)
(* serde_json::Value, as far as load_google_sheet looks into it            *)
(***************************************************************************)
JNull == [t |-> "null"]

JNum == [t |-> "num"]

JStr(s) == [t |-> "str", s |-> s]

JArr(a) == [t |-> "arr", a |-> a]

\* m: a function from member names to values
JObj(m) == [t |-> "obj", m |-> m]

\* Value::get(&str): a member of an object, None for anything else
json_get(json, key) ==
    IF json.t = "obj" /\ key \in DOMAIN json.m THEN Some(json.m[key]) ELSE None

\* Value::get(usize) (0-based): an element of an array, None for anything else
json_index(json, n) ==
    IF json.t = "arr" /\ n + 1 <= Len(json.a) THEN Some(json.a[n + 1]) ELSE None

\* v.as_str().unwrap_or("")
str_or_empty(v) == IF v.t = "str" THEN v.s ELSE <<>>

\* as_array().unwrap_or(&Vec::new()) mapped to strings
cells_of(row) ==
    IF row.t = "arr"
    THEN [i \in 1..Len(row.a) |-> str_or_empty(row.a[i])]
    ELSE <<>>

(***************************************************************************)
(* SheetSource: extract_spreadsheet_id and load_google_sheet               *)
(***************************************************************************)
extract_spreadsheet_id(url) ==
    LET parts == split(url, "/")
        hits  == {i \in 1..Len(parts) : parts[i] = <<"d">> /\ i + 1 <= Len(parts)}
    IN  IF hits = {}
        THEN Err("InvalidUrl")
        ELSE Ok(parts[(CHOOSE i \in hits : \A j \in hits : i <= j) + 1])

Sheet1 == <<"S","h","e","e","t","1">>

\* a variant that trims the name before the test
default_sheet_when_blank(sheet_name) ==
    IF trim_is_empty(sheet_name) THEN Sheet1 ELSE sheet_name

\* let sheet = if sheet_name.is_empty() { "Sheet1" } else { sheet_name }
default_sheet(sheet_name) ==
    IF sheet_name = <<>> THEN Sheet1 ELSE sheet_name

\* what the request URL is built from
api_request(spreadsheet_id, sheet) ==
    [spreadsheet_id |-> spreadsheet_id, sheet |-> sheet]

is_category_row(row) ==
    LET first_cell == json_index(row, 0)
    IN  /\ first_cell.tag = "Some"
        /\ first_cell.v.t = "str"
        /\ to_lowercase(first_cell.v.s) = <<"c","a","t","e","g","o","r","y">>

\* the header row search, without the break: the last match wins
find_header_row_last(values) ==
    LET hits == {i \in 1..Len(values) : is_category_row(values[i])}
    IN  IF hits = {} THEN 0 ELSE (CHOOSE i \in hits : \A j \in hits : j <= i) - 1

\* the header row search: start_index (0-based), 0 when no row matches
find_header_row(values) ==
    LET hits == {i \in 1..Len(values) : is_category_row(values[i])}
    IN  IF hits = {} THEN 0 ELSE (CHOOSE i \in hits : \A j \in hits : i <= j) - 1

\* the row filter of load_google_sheet
sheet_row_is_empty(row_array) ==
    \/ row_array = <<>>
    \/ \A i \in 1..Len(row_array) :
           row_array[i].t # "str" \/ trim_is_empty(row_array[i].s)

\* the loop over relevant_data.iter().skip(1)
RECURSIVE sheet_rows(_, _)
sheet_rows(row_values, visible_columns) ==
    IF row_values = <<>>
    THEN <<>>
    ELSE LET n    == Len(row_values)
             init == sheet_rows(SubSeq(row_values, 1, n - 1), visible_columns)
             row  == row_values[n]
         IN  IF row.t # "arr" \/ sheet_row_is_empty(row.a)
             THEN init
             ELSE Append(init, filter_visible(cells_of(row), visible_columns))

\* the body of `if let Some(values) = ...` for a non-empty values array
process_values(values) ==
    LET start_index   == find_header_row(values)
        relevant_data == SubSeq(values, start_index + 1, Len(values))
        ph            == process_headers(cells_of(Head(relevant_data)))
    IN  [headers |-> ph.processed_headers,
         rows    |-> sheet_rows(Tail(relevant_data), ph.visible_columns)]

\* a variant that rejects a "values" that is not an array
sheet_table_strict(json) ==
    LET values == json_get(json, "values")
    IN  IF values.tag = "Some" /\ values.v.t = "arr"
        THEN IF values.v.a = <<>>
             THEN Ok(TableData_empty)
             ELSE Ok(process_values(values.v.a))
        ELSE IF values.tag = "Some" THEN Err("Json") ELSE Ok(TableData_empty)

\* "Process the data": the table of a parsed response body
sheet_table(json) ==
    LET values == json_get(json, "values")
    IN  IF values.tag = "Some" /\ values.v.t = "arr"
        THEN IF values.v.a = <<>>
             THEN Ok(TableData_empty)
             ELSE Ok(process_values(values.v.a))
        ELSE Ok(TableData_empty)

\* StatusCode::is_success
is_success(status) == 200 <= status /\ status <= 299

\* A response is a transport failure, or a status with a body that is
\* either JSON or not.  The result carries the requests that were sent.
load_google_sheet(url, sheet_name, response) ==
    LET spreadsheet_id == extract_spreadsheet_id(url)
    IN  IF spreadsheet_id.tag = "Err"
        THEN [result |-> spreadsheet_id, sent |-> <<>>]
        ELSE LET request == api_request(spreadsheet_id.v, default_sheet(sheet_name))
             IN  [sent   |-> <<request>>,
                  result |->
                      IF response.kind = "transport_error"
                      THEN Err("Network")
                      ELSE IF ~ is_success(response.status)
                      THEN Err("Api")
                      ELSE IF response.body.kind # "json"
                      THEN Err("Json")
                      ELSE sheet_table(response.body.json)]

(***************************************************************************)
(* The shell: struct ScoreViewer and its handlers.  Left out of the struct  *)
(* are theme_is_dark (read by the renderer alone) and file_path, sheet_url *)
(* and sheet_name (copies of what data_source holds, assigned together     *)
(* with it and read by no other handler).  last_update is kept as          *)
(* refresh_due: now.duration_since(last_update) >= UPDATE_INTERVAL.        *)
(***************************************************************************)
Local(path) == [kind |-> "Local", path |-> path]

Cloud(url, sheet) == [kind |-> "Cloud", url |-> url, sheet |-> sheet]

\* impl Default for ScoreViewer
ScoreViewer_default ==
    [data_source       |-> None,
     data              |-> None,
     show_cloud_dialog |-> FALSE,
     refresh_due       |-> FALSE,
     temp_url          |-> <<>>,
     temp_sheet        |-> <<>>]

\* the load call refresh_data makes for a data source
load_source(source, f, n) ==
    IF source.kind = "Local"
    THEN load_csv_file(f[source.path])
    ELSE load_google_sheet(source.url, source.sheet, n).result

\* Each handler yields the struct after it and, as "load", the outcome of
\* the load it made ("none" when it made none).
no_load(a) == [app |-> a, load |-> "none"]

\* a variant that clears the table when the load fails
store_or_clear(a, r) ==
    [app  |-> [a EXCEPT !.data = IF r.tag = "Ok" THEN Some(r.v) ELSE None],
     load |-> r.tag]

\* if let Ok(data) = load(..) { self.data = Some(data); }
store_if_ok(a, r) ==
    [app  |-> IF r.tag = "Ok" THEN [a EXCEPT !.data = Some(r.v)] ELSE a,
     load |-> r.tag]

\* a variant of refresh_data that drops the table when the reload fails
refresh_data_clearing(a, f, n) ==
    IF a.data_source.tag = "None"
    THEN no_load(a)
    ELSE store_or_clear(a, load_source(a.data_source.v, f, n))

refresh_data(a, f, n) ==
    IF a.data_source.tag = "None"
    THEN no_load(a)
    ELSE store_if_ok(a, load_source(a.data_source.v, f, n))

\* picked: what FileDialog::pick_file returned
open_file_dialog(a, picked, f) ==
    IF picked.tag = "None"
    THEN no_load(a)
    ELSE store_if_ok([a EXCEPT !.data_source = Some(Local(picked.v))],
                     load_csv_file(f[picked.v]))

connect_to_sheet(a, n) ==
    IF a.temp_url = <<>>
    THEN no_load(a)
    ELSE store_if_ok([a EXCEPT !.data_source = Some(Cloud(a.temp_url, a.temp_sheet))],
                     load_google_sheet(a.temp_url, a.temp_sheet, n).result)

\* the head of update(): the periodic refresh
auto_refresh(a, f, n) ==
    IF a.refresh_due
    THEN refresh_data([a EXCEPT !.refresh_due = FALSE], f, n)
    ELSE no_load(a)

\* the source of the table after a handler that made a load
origin_after(step, origin) ==
    IF step.load = "Ok" THEN step.app.data_source ELSE origin

(***************************************************************************)
(* The environment of the shell: two files, one spreadsheet service        *)
(***************************************************************************)
Paths == {"a.csv", "b.csv"}

\* "Name,Info\nx,y\n"
TextOne == <<"N","a","m","e",",","I","n","f","o","\n","x",",","y","\n">>

\* "Part-1\n7\n"
TextTwo == <<"P","a","r","t","-","1","\n","7","\n">>

FileStates == {None, Some(TextOne), Some(TextTwo)}

\* "g/d/K": a URL with a spreadsheet identifier
UrlGood == <<"g","/","d","/","K">>

Urls == {<<>>, UrlGood}

SheetNames == {<<>>, <<"S">>}

TransportError == [kind |-> "transport_error"]

HttpBody(status, json) ==
    [kind |-> "http", status |-> status, body |-> [kind |-> "json", json |-> json]]

\* a status with a body that is not JSON
HttpText(status) ==
    [kind |-> "http", status |-> status, body |-> [kind |-> "text"]]

\* {"values": [["Category", "Info"], ["A", "i"]]}
GridOne ==
    JObj([values |-> JArr(<<
        JArr(<<JStr(<<"C","a","t","e","g","o","r","y">>), JStr(<<"I","n","f","o">>)>>),
        JArr(<<JStr(<<"A">>), JStr(<<"i">>)>>) >>)])

Responses == <<TransportError, HttpText(404), HttpBody(200, GridOne)>>

(***************************************************************************)
(* Frames of the shell.  update() first runs the periodic refresh when it  *)
(* is due and then the handler of the widget the user acted on.            *)
(***************************************************************************)
NoCall == [fn |-> "none"]

\* what a frame leaves behind: the struct, and the two history variables
frame_result(ui, s1, s2, origin) ==
    [app       |-> s2.app,
     event     |-> [ui |-> ui, auto |-> s1.load, load |-> s2.load],
     data_from |-> origin_after(s2, origin_after(s1, origin))]

\* the struct after the head of update(), where the handlers start
refreshed == auto_refresh(app, fs, net)

\* s2: what the handler of the frame made of refreshed.app
frame(ui, s2) == frame_result(ui, refreshed, s2, data_from)

Becomes(f) ==
    /\ app' = f.app
    /\ event' = f.event
    /\ data_from' = f.data_from

close_dialog(s) == [s EXCEPT !.app.show_cloud_dialog = FALSE]

\* a frame without user input
FrameIdle ==
    /\ Becomes(frame("none", no_load(refreshed.app)))
    /\ UNCHANGED <<fs, net, call>>

\* File > Open CSV...
ClickOpenCsv ==
    /\ \E picked \in {None} \cup {Some(p) : p \in Paths} :
           Becomes(frame("open_csv", open_file_dialog(refreshed.app, picked, fs)))
    /\ UNCHANGED <<fs, net, call>>

\* File > Connect to Google Sheet...
ClickConnectMenu ==
    /\ Becomes(frame("dialog",
                     no_load([refreshed.app EXCEPT !.show_cloud_dialog = TRUE])))
    /\ UNCHANGED <<fs, net, call>>

\* the dialog's URL field
EditUrl ==
    /\ app.show_cloud_dialog
    /\ \E u \in Urls :
           Becomes(frame("dialog", no_load([refreshed.app EXCEPT !.temp_url = u])))
    /\ UNCHANGED <<fs, net, call>>

\* the dialog's sheet name field
EditSheet ==
    /\ app.show_cloud_dialog
    /\ \E n \in SheetNames :
           Becomes(frame("dialog", no_load([refreshed.app EXCEPT !.temp_sheet = n])))
    /\ UNCHANGED <<fs, net, call>>

\* the dialog's Connect button
ClickConnect ==
    /\ app.show_cloud_dialog
    /\ Becomes(frame("connect", close_dialog(connect_to_sheet(refreshed.app, net))))
    /\ UNCHANGED <<fs, net, call>>

\* the dialog's Cancel button
ClickCancel ==
    /\ app.show_cloud_dialog
    /\ Becomes(frame("dialog",
                     no_load([refreshed.app EXCEPT !.show_cloud_dialog = FALSE])))
    /\ UNCHANGED <<fs, net, call>>

\* View > Refresh Data
ClickRefresh ==
    /\ Becomes(frame("refresh", refresh_data(refreshed.app, fs, net)))
    /\ UNCHANGED <<fs, net, call>>

EnvEvent == [ui |-> "env", auto |-> "none", load |-> "none"]

\* UPDATE_INTERVAL has passed since last_update
IntervalElapses ==
    /\ ~ app.refresh_due
    /\ app' = [app EXCEPT !.refresh_due = TRUE]
    /\ event' = EnvEvent
    /\ UNCHANGED <<fs, net, data_from, call>>

\* a file is written, replaced or removed
FileChanges ==
    /\ \E p \in Paths, st \in FileStates :
           /\ fs[p] # st
           /\ fs' = [fs EXCEPT ![p] = st]
    /\ event' = EnvEvent
    /\ UNCHANGED <<app, net, data_from, call>>

\* the spreadsheet service starts to answer differently
ServiceChanges ==
    /\ \E i \in 1..Len(Responses) :
           /\ net # Responses[i]
           /\ net' = Responses[i]
    /\ event' = EnvEvent
    /\ UNCHANGED <<app, fs, data_from, call>>

Init ==
    /\ app = ScoreViewer_default
    /\ fs = [p \in Paths |-> None]
    /\ net = TransportError
    /\ event = EnvEvent
    /\ data_from = None
    /\ call = NoCall

Next ==
    \/ FrameIdle
    \/ ClickOpenCsv
    \/ ClickConnectMenu
    \/ EditUrl
    \/ EditSheet
    \/ ClickConnect
    \/ ClickCancel
    \/ ClickRefresh
    \/ IntervalElapses
    \/ FileChanges
    \/ ServiceChanges

Spec == Init /\ [][Next]_vars

(***************************************************************************)
(* Inputs of the pipeline functions                                        *)
(***************************************************************************)
MaxCols == 3

MaxLines == 3

MaxSheetRows == 3

\* the sequences over a set S of length at most n
SeqsUpTo(S, n) == UNION {[1..k -> S] : k \in 0..n}

\* headers for replace_header: a prefix, a core and a suffix
HeaderPrefixes ==
    { <<>>,
      <<"x"," ">>,
      <<"C","a","t","e","g","o","r","y","-">>,
      <<"p","s","u","m","-">> }

\* the needles of both tables in mixed case, and plain text
HeaderCores ==
    { <<"P","a","r","t","-">>,
      <<"P","S","U","M","-">>,
      <<"c","a","t","e","g","o","r","y">>,
      <<"F","i","r","s","t","_","N","a","m","e">>,
      <<"l","a","s","t","_","n","a","m","e">>,
      <<"O","r","g","a","n","i","z","a","t","i","o","n">>,
      <<"n","a","p","a","t">>,
      <<"R","e","s","u","l","t">>,
      <<"P","o","s","i","t",".">>,
      <<"N","a","m","e">>,
      <<"i","n","f","o">>,
      <<"T","e","a","m","_","N","a","m","e">>,
      <<"s","p","o","r","t","_","i","d">>,
      <<"r","e","s","u","l","t","_","c","o","d","e">>,
      <<"t","e","a","m","_","m","e","m","b","e","r","s">>,
      <<"P","o","s","i","t","i","o","n","_","P","r","e">>,
      <<>> }

\* what follows the core
HeaderSuffixes ==
    { <<>>,
      <<"3">>,
      <<"-","2">>,
      <<"_","b">> }

SampleHeaders ==
    {p \o c \o x : p \in HeaderPrefixes, c \in HeaderCores, x \in HeaderSuffixes}

\* headers for the header rows given to process_headers
RowHeaders ==
    { <<"I","n","f","o">>,
      <<"N","a","m","e">>,
      <<"P","a","r","t","-","3">>,
      <<"T","E","A","M","_","N","A","M","E","_","2">>,
      <<"C","a","t","e","g","o","r","y">>,
      <<"r","e","s","u","l","t">> }

\* lines of CSV files: header lines, full, short, long and blank rows
CsvLines ==
    { <<"N","a","m","e",",","I","n","f","o",",","P","a","r","t","-","1">>,
      <<"N","a","m","e",";","I","n","f","o">>,
      <<"x",",","y",",","z">>,
      <<"x">>,
      <<" ",",",",">>,
      <<",","y">>,
      <<"a",";","b">>,
      <<"x",",","y",",","z",",","w">>,
      <<>> }

\* the lines joined by line breaks
RECURSIVE join_lines(_)
join_lines(ls) ==
    IF ls = <<>> THEN <<>>
    ELSE IF Len(ls) = 1 THEN ls[1]
    ELSE ls[1] \o <<"\n">> \o join_lines(Tail(ls))

CsvTexts == {join_lines(ls) : ls \in SeqsUpTo(CsvLines, MaxLines)}

\* rows of a sheet: arrays of strings, and rows of other shapes
SheetRowSamples ==
    << JArr(<<JStr(<<"x">>)>>),
       JArr(<<JStr(<<"C","A","T","E","G","O","R","Y">>), JStr(<<"I","n","f","o">>),
              JStr(<<"N","a","m","e">>)>>),
       JArr(<<JStr(<<"a">>), JStr(<<"b">>)>>),
       JArr(<<JStr(<<>>), JStr(<<" ">>)>>),
       JArr(<<>>),
       JStr(<<"o","o","p","s">>),
       JArr(<<JNum, JStr(<<"i">>), JStr(<<"n">>)>>),
       JArr(<<JStr(<<"c","a","t","e","g","o","r","y">>), JStr(<<"P","a","r","t","-","2">>)>>),
       JArr(<<JStr(<<>>), JStr(<<"h">>), JStr(<<>>)>>),
       JArr(<<JStr(<<"a">>), JStr(<<"b">>), JStr(<<"c">>), JStr(<<"d">>)>>) >>

\* response bodies that are JSON without a grid of rows under "values"
OddBodies ==
    << JNull,
       JArr(<<JArr(<<JStr(<<"a">>)>>)>>),
       JObj(<<>>),
       JObj([other |-> JArr(<<JArr(<<JStr(<<"a">>)>>)>>)]),
       JObj([values |-> JNull]),
       JObj([values |-> JStr(<<"o","o","p","s">>)]),
       JObj([values |-> JObj(<<>>)]),
       JObj([values |-> JArr(<<>>)]) >>

OddResponses ==
    << TransportError, HttpText(200), HttpText(500), HttpBody(404, GridOne),
       HttpBody(204, GridOne) >>
    \o [i \in 1..Len(OddBodies) |-> HttpBody(200, OddBodies[i])]

\* spreadsheet URLs, with and without an identifier after a d segment
SampleUrls ==
    { <<>>,
      <<"b","a","d">>,
      <<"g","/","d","/","K">>,
      <<"d">>,
      <<"g","/","d","/">>,
      <<"d","/","A","/","d","/","B">> }

\* sheet names: empty, blank, plain
SampleSheetNames ==
    { <<>>,
      <<" ">>,
      <<"S">>,
      <<" ","S">>,
      <<"\t"," ">> }

(***************************************************************************)
(* The pipeline functions applied to their inputs                          *)
(***************************************************************************)
Applied(fn, arg, ret) == [fn |-> fn, arg |-> arg, ret |-> ret]

CallReplaceHeader ==
    /\ call = NoCall
    /\ \E h \in SampleHeaders :
           call' = Applied("replace_header", h, replace_header(h))
    /\ UNCHANGED <<app, fs, net, event, data_from>>

CallProcessHeaders ==
    /\ call = NoCall
    /\ \E hs \in SeqsUpTo(RowHeaders, MaxCols) :
           call' = Applied("process_headers", hs, process_headers(hs))
    /\ UNCHANGED <<app, fs, net, event, data_from>>

CallDetectDelimiter ==
    /\ call = NoCall
    /\ \E t \in CsvTexts :
           call' = Applied("detect_delimiter", t, detect_delimiter(Some(t)))
    /\ UNCHANGED <<app, fs, net, event, data_from>>

CallLoadCsvFile ==
    /\ call = NoCall
    /\ \E file \in {None} \cup {Some(t) : t \in CsvTexts} :
           call' = Applied("load_csv_file", file, load_csv_file(file))
    /\ UNCHANGED <<app, fs, net, event, data_from>>

CallExtractSpreadsheetId ==
    /\ call = NoCall
    /\ \E u \in SampleUrls :
           call' = Applied("extract_spreadsheet_id", u, extract_spreadsheet_id(u))
    /\ UNCHANGED <<app, fs, net, event, data_from>>

LoadSheetApplied(url, sheet_name, response) ==
    Applied("load_google_sheet",
            [url |-> url, sheet_name |-> sheet_name, response |-> response],
            load_google_sheet(url, sheet_name, response))

\* any URL and sheet name against the responses without a grid
CallLoadGoogleSheetOdd ==
    /\ call = NoCall
    /\ \E u \in SampleUrls, n \in SampleSheetNames, i \in 1..Len(OddResponses) :
           call' = LoadSheetApplied(u, n, OddResponses[i])
    /\ UNCHANGED <<app, fs, net, event, data_from>>

\* a good URL against the grids of at most MaxSheetRows sample rows
CallLoadGoogleSheetGrid ==
    /\ call = NoCall
    /\ \E k \in 1..MaxSheetRows :
           \E pick \in [1..k -> 1..Len(SheetRowSamples)] :
               call' = LoadSheetApplied(UrlGood, <<>>,
                           HttpBody(200, JObj([values |->
                               JArr([i \in 1..k |-> SheetRowSamples[pick[i]]])])))
    /\ UNCHANGED <<app, fs, net, event, data_from>>

NextPipeline ==
    \/ CallReplaceHeader
    \/ CallProcessHeaders
    \/ CallDetectDelimiter
    \/ CallLoadCsvFile
    \/ CallExtractSpreadsheetId
    \/ CallLoadGoogleSheetOdd
    \/ CallLoadGoogleSheetGrid

SpecPipeline == Init /\ [][NextPipeline]_vars

(***************************************************************************)
(* Properties.  Helpers first: they state what the specification says,     *)
(* without the operators above where the property is about them.           *)
(***************************************************************************)
\* the k-th smallest element of a finite set of numbers
KthOf(S, k) == CHOOSE i \in S : Cardinality({j \in S : j < i}) = k - 1

\* a field with a character that is not whitespace
NotBlank(field) == \E i \in 1..Len(field) : field[i] \notin {" ", "\t", "\r", "\n"}

\* a pipeline call that returned Ok
Returned(fn) == call.fn = fn /\ call.ret.tag = "Ok"

\* a load_google_sheet call that got as far as a 2xx response
SheetAnswered ==
    /\ call.fn = "load_google_sheet"
    /\ call.ret.sent # <<>>
    /\ call.arg.response.kind = "http"
    /\ call.arg.response.status \in 200..299

\* ... whose body is JSON with a non-empty array under "values"
SheetGridAnswered ==
    /\ SheetAnswered
    /\ call.arg.response.body.kind = "json"
    /\ call.arg.response.body.json.t = "obj"
    /\ "values" \in DOMAIN call.arg.response.body.json.m
    /\ call.arg.response.body.json.m["values"].t = "arr"
    /\ call.arg.response.body.json.m["values"].a # <<>>

GridValues == call.arg.response.body.json.m["values"].a

\* the header row of a grid as the specification locates it (1-based)
IsCategoryCell(v) == v.t = "str" /\ to_lowercase(v.s) = <<"c","a","t","e","g","o","r","y">>

HeaderRowOf(values) ==
    LET hits == {i \in 1..Len(values) :
                     /\ values[i].t = "arr"
                     /\ values[i].a # <<>>
                     /\ IsCategoryCell(values[i].a[1])}
    IN  IF hits = {} THEN 1 ELSE CHOOSE i \in hits : \A j \in hits : i <= j

\* the records of a loaded CSV text, as the reader delivered them
CsvRecordsRead == csv_records(call.arg.v, detect_delimiter(call.arg).v)

\* the field sequences of the data rows of the last load, and its mask
DataRowsRead ==
    IF call.fn = "load_csv_file"
    THEN IF CsvRecordsRead = <<>> THEN <<>> ELSE Tail(CsvRecordsRead)
    ELSE LET rows == SubSeq(GridValues, HeaderRowOf(GridValues) + 1, Len(GridValues))
         IN  [i \in 1..Len(rows) |-> cells_of(rows[i])]

HeaderFieldsRead ==
    IF call.fn = "load_csv_file"
    THEN IF CsvRecordsRead = <<>> THEN <<>> ELSE Head(CsvRecordsRead)
    ELSE cells_of(GridValues[HeaderRowOf(GridValues)])

MaskRead == process_headers(HeaderFieldsRead).visible_columns

\* the data rows that are not all blank, by position
KeptRows ==
    LET data == DataRowsRead
    IN  {i \in 1..Len(data) : \E j \in 1..Len(data[i]) : NotBlank(data[i][j])}

\* a load that returned a table built from a header row
TableLoaded ==
    \/ Returned("load_csv_file")
    \/ SheetGridAnswered /\ call.ret.result.tag = "Ok"

TableRead ==
    IF call.fn = "load_csv_file" THEN call.ret.v ELSE call.ret.result.v

(***************************************************************************)
(* C1  Row lengths of a loaded table                                       *)
(***************************************************************************)
\* C1 as stated: in every table that load_csv_file or load_google_sheet
\* returns, every row is as long as the headers, ragged input included.
C1_RowsAsLongAsHeaders ==
    TableLoaded =>
        \A k \in 1..Len(TableRead.rows) :
            Len(TableRead.rows[k]) = Len(TableRead.headers)

\* C1 as amended: the k-th row holds one cell per visible column that the
\* k-th kept data row reaches, so it is never longer than the headers and
\* is as long as the headers when that data row has at least as many fields
\* as the header row.
C1_RowsWithinHeaders ==
    TableLoaded =>
        LET mask   == MaskRead
            data   == DataRowsRead
            kept   == KeptRows
            table  == TableRead
            width  == Len(HeaderFieldsRead)
        IN  /\ Len(table.headers) = Cardinality({i \in 1..Len(mask) : mask[i]})
            /\ Len(table.rows) = Cardinality(kept)
            /\ \A k \in 1..Len(table.rows) :
                   LET fields == data[KthOf(kept, k)]
                   IN  /\ Len(table.rows[k]) =
                              Cardinality({i \in 1..Len(mask) :
                                               mask[i] /\ i <= Len(fields)})
                       /\ Len(table.rows[k]) <= Len(table.headers)
                       /\ Len(fields) >= width =>
                              Len(table.rows[k]) = Len(table.headers)

\* a CSV file whose data row has more fields than its header row was loaded,
\* and the row was cut to the visible columns
C1_LongRowLoaded ==
    /\ Returned("load_csv_file")
    /\ call.arg = Some(<<"N","a","m","e",",","I","n","f","o",",","P","a","r","t","-","1","\n","x",",","y",",","z",",","w">>)
    /\ call.ret.v.headers = <<<<"N","a","m","e">>, <<"S","1">>>>
    /\ call.ret.v.rows = << <<<<"x">>, <<"z">>>> >>

(***************************************************************************)
(* C4  Delimiter detection                                                 *)
(***************************************************************************)
\* the text before the first line break
FirstLine(text) ==
    IF \E i \in 1..Len(text) : text[i] = "\n"
    THEN SubSeq(text, 1, (CHOOSE i \in 1..Len(text) :
                              text[i] = "\n" /\ \A j \in 1..(i - 1) : text[j] # "\n") - 1)
    ELSE text

\* C4: the delimiter is ';' if and only if the first line of the file holds
\* a semicolon, and ',' otherwise, whatever the later lines hold.
C4_DelimiterFromFirstLine ==
    call.fn = "detect_delimiter" =>
        call.ret = IF \E i \in 1..Len(FirstLine(call.arg)) : FirstLine(call.arg)[i] = ";"
                   THEN Ok(";")
                   ELSE Ok(",")

(***************************************************************************)
(* C5  Response bodies without a grid                                      *)
(***************************************************************************)
\* an array of rows, each row an array of string cells
IsGrid(v) ==
    /\ v.t = "arr"
    /\ \A i \in 1..Len(v.a) :
           /\ v.a[i].t = "arr"
           /\ \A j \in 1..Len(v.a[i].a) : v.a[i].a[j].t = "str"

\* the body holds no "values", or an empty array under it
ValuesAbsentOrEmpty(json) ==
    \/ json.t # "obj"
    \/ "values" \notin DOMAIN json.m
    \/ json.m["values"].t = "arr" /\ json.m["values"].a = <<>>

\* an object whose "values" is a grid
HasGridShape(json) ==
    /\ json.t = "obj"
    /\ "values" \in DOMAIN json.m
    /\ IsGrid(json.m["values"])

Denylist ==
    { <<"s","p","o","r","t","_","i","d">>,
      <<"t","e","a","m","_","m","e","m","b","e","r","s">>,
      <<"t","e","a","m","_","n","a","m","e">>,
      <<"i","n","f","o">>,
      <<"r","e","s","u","l","t","_","c","o","d","e">>,
      <<"p","o","s","i","t","i","o","n","_","p","r","e">> }

\* text occurs in s
Occurs(text, s) ==
    \E i \in 1..(Len(s) - Len(text) + 1) :
        \A j \in 1..Len(text) : s[i + j - 1] = text[j]

\* C6: the mask has one entry per raw header, false exactly for the headers
\* whose lowercase form holds a denylist substring, and the processed
\* headers are the replace_header results of the others, in order.
C6_MaskAndProcessedHeaders ==
    call.fn = "process_headers" =>
        LET mask    == call.ret.visible_columns
            out     == call.ret.processed_headers
            visible == {i \in 1..Len(call.arg) : mask[i]}
        IN  /\ Len(mask) = Len(call.arg)
            /\ \A i \in 1..Len(call.arg) :
                   mask[i] = FALSE <=>
                       \E d \in Denylist : Occurs(d, to_lowercase(call.arg[i]))
            /\ Len(out) = Cardinality(visible)
            /\ \A k \in 1..Len(out) :
                   out[k] = replace_header(call.arg[KthOf(visible, k)])

\* a hidden header between two visible ones was classified
C6_HiddenBetweenVisible ==
    /\ call.fn = "process_headers"
    /\ call.arg = <<<<"N","a","m","e">>, <<"T","E","A","M","_","N","A","M","E","_","2">>, <<"P","a","r","t","-","3">>>>
    /\ call.ret.visible_columns = <<TRUE, FALSE, TRUE>>
    /\ call.ret.processed_headers = <<<<"N","a","m","e">>, <<"S","3">>>>

(***************************************************************************)
(* C7  replace_header                                                      *)
(***************************************************************************)
\* the second of the fields of h that '-' separates
SecondField(h) ==
    LET dashes == {i \in 1..Len(h) : h[i] = "-"}
        first  == KthOf(dashes, 1)
        stop   == IF Cardinality(dashes) >= 2 THEN KthOf(dashes, 2) ELSE Len(h) + 1
    IN  SubSeq(h, first + 1, stop - 1)

RenameTable ==
    << [needle |-> <<"c","a","t","e","g","o","r","y">>, label |-> <<"S","e","r","i","e","s">>],
       [needle |-> <<"f","i","r","s","t","_","n","a","m","e">>, label |-> <<"N","a","m","e">>],
       [needle |-> <<"l","a","s","t","_","n","a","m","e">>, label |-> <<"S","u","r","n","a","m","e">>],
       [needle |-> <<"o","r","g","a","n","i","z","a","t","i","o","n">>, label |-> <<"C","l","u","b">>],
       [needle |-> <<"n","a","p","a","t">>, label |-> <<"X">>],
       [needle |-> <<"r","e","s","u","l","t">>, label |-> <<"R","e","s","u","l","t">>],
       [needle |-> <<"p","o","s","i","t",".">>, label |-> <<"R","a","n","k">>] >>

Renamed(h) ==
    LET low  == to_lowercase(h)
        hits == {i \in 1..Len(RenameTable) : Occurs(RenameTable[i].needle, low)}
    IN  IF Occurs(<<"p","a","r","t","-">>, low) THEN <<"S">> \o SecondField(h)
        ELSE IF Occurs(<<"p","s","u","m","-">>, low) THEN <<"P">> \o SecondField(h)
        ELSE IF hits # {} THEN RenameTable[KthOf(hits, 1)].label
        ELSE h

\* C7: replace_header applies the first matching rule of: part-, psum-,
\* the rename table in its declared order, the header unchanged.
C7_FirstMatchingRule ==
    call.fn = "replace_header" =>
        /\ call.ret = Renamed(call.arg)
        /\ call.arg = <<"P","a","r","t","-">> => call.ret = <<"S">>
        /\ call.arg = <<"P","o","s","i","t",".","3">> => call.ret = <<"R","a","n","k">>

\* a header with both "part-" and "category" was renamed by the part rule
C7_PartBeforeCategory ==
    /\ call.fn = "replace_header"
    /\ call.arg = <<"C","a","t","e","g","o","r","y","-","P","a","r","t","-","3">>
    /\ call.ret = <<"S","P","a","r","t">>

(***************************************************************************)
(* C8  The header row of a sheet                                           *)
(***************************************************************************)
\* C8: the header row is the first row whose first cell, lowercased, is
\* "category", row 0 if there is none; it supplies the headers, and only
\* the rows after it become data rows.
C8_HeaderRowLocated ==
    SheetGridAnswered =>
        LET h    == HeaderRowOf(GridValues)
            ph   == process_headers(cells_of(GridValues[h]))
            rest == SubSeq(GridValues, h + 1, Len(GridValues))
        IN  /\ h - 1 = find_header_row(GridValues)
            /\ call.ret.result.tag = "Ok"
            /\ call.ret.result.v.headers = ph.processed_headers
            /\ call.ret.result.v.rows = sheet_rows(rest, ph.visible_columns)
            /\ Len(call.ret.result.v.rows) <= Len(GridValues) - h

\* the grid [["x"], ["CATEGORY","Info","Name"], ["a","b"]] was loaded:
\* row 1 is the header row, row 2 the sole data row
C8_SecondRowIsHeader ==
    /\ SheetGridAnswered
    /\ Len(GridValues) = 3
    /\ cells_of(GridValues[1]) = <<<<"x">>>>
    /\ cells_of(GridValues[2]) = <<<<"C","A","T","E","G","O","R","Y">>, <<"I","n","f","o">>, <<"N","a","m","e">>>>
    /\ cells_of(GridValues[3]) = <<<<"a">>, <<"b">>>>
    /\ call.ret.result = Ok([headers |-> <<<<"S","e","r","i","e","s">>, <<"N","a","m","e">>>>,
                             rows    |-> << <<<<"a">>>> >>])

(***************************************************************************)
(* C9  Blank rows                                                          *)
(***************************************************************************)
\* C9: for both sources a data row is dropped exactly when all of its
\* fields are blank (or it has none), and the kept rows keep their order.
C9_BlankRowsDropped ==
    TableLoaded =>
        LET mask   == MaskRead
            data   == DataRowsRead
            kept   == KeptRows
            table  == TableRead
        IN  /\ Len(table.rows) = Cardinality(kept)
            /\ \A k \in 1..Len(table.rows) :
                   table.rows[k] = filter_visible(data[KthOf(kept, k)], mask)

\* a CSV file was loaded whose first data row has its only non-blank field
\* in a hidden column: it was kept, before the row that follows it
C9_HiddenFieldKeepsRow ==
    /\ Returned("load_csv_file")
    /\ call.arg = Some(<<"N","a","m","e",",","I","n","f","o",",","P","a","r","t","-","1","\n",",","y","\n","x",",","y",",","z">>)
    /\ call.ret.v.rows = << <<<<>>>>, <<<<"x">>, <<"z">>>> >>

(***************************************************************************)
(* C10  The default sheet name                                             *)
(***************************************************************************)
\* C10 as stated: the request names sheet "Sheet1" when the given sheet
\* name is empty or whitespace only, and the given name otherwise.
C10_BlankNameDefaults ==
    call.fn = "load_google_sheet" /\ call.ret.sent # <<>> =>
        call.ret.sent[1].sheet =
            IF \A i \in 1..Len(call.arg.sheet_name) :
                   call.arg.sheet_name[i] \in {" ", "\t", "\r", "\n"}
            THEN <<"S","h","e","e","t","1">>
            ELSE call.arg.sheet_name

\* C10 as amended: the request names sheet "Sheet1" when the given sheet
\* name is the empty string, and the given name, whitespace included,
\* otherwise.
C10_EmptyNameDefaults ==
    call.fn = "load_google_sheet" /\ call.ret.sent # <<>> =>
        /\ Len(call.ret.sent) = 1
        /\ call.ret.sent[1].sheet =
               IF Len(call.arg.sheet_name) = 0
               THEN <<"S","h","e","e","t","1">>
               ELSE call.arg.sheet_name

\* a request was sent for the sheet named " "
C10_BlankNameSent ==
    /\ call.fn = "load_google_sheet"
    /\ call.arg.sheet_name = <<" ">>
    /\ call.ret.sent # <<>>
    /\ call.ret.sent[1].sheet = <<" ">>

(***************************************************************************)
(* C2  Switching the source                                                *)
(***************************************************************************)
\* C2: once the user has selected a new source, the table the shell holds
\* is never one that was loaded from an earlier source: a held table comes
\* from the active source.
C2_TableFromActiveSource ==
    app.data.tag = "Some" => data_from = app.data_source

(***************************************************************************)
(* C3  Reloads                                                             *)
(***************************************************************************)
\* a frame in which refresh_data ran and no other handler that loads
RefreshFrame ==
    /\ event'.ui \in {"none", "refresh", "dialog"}
    /\ event'.ui = "refresh" \/ app.refresh_due
    /\ app.data_source.tag = "Some"

\* C3: a reload that fails, by the timer or by Refresh Data, leaves the
\* table and the data source as they were; one that succeeds puts the
\* newly loaded table in the old one's place.
C3_FailedReloadKeepsTable ==
    [][RefreshFrame =>
           LET r == load_source(app.data_source.v, fs, net)
           IN  /\ app'.data_source = app.data_source
               /\ r.tag = "Err" => app'.data = app.data
               /\ r.tag = "Ok" => app'.data = Some(r.v)]_vars

\* the timer's reload has failed while a table was displayed
C3_TimerReloadFailed ==
    /\ event.ui = "none"
    /\ event.auto = "Err"
    /\ app.data.tag = "Some"
    /\ app.data_source.tag = "Some"

====
